---- MODULE Spec2Model ----
(***************************************************************************)
(* dnsaq (main.go): bulk DNS resolution with resolver failover, wildcard   *)
(* filtering, a ticking admission limiter and a single-consumer output     *)
(* sink.  Names are sequences of labels ("a.x.com" is <<"a","x","com">>),  *)
(* output lines are sequences of tokens, time is counted in clock steps of *)
(* which Period make one limiter period.                                   *)
(***************************************************************************)
EXTENDS Integers, Sequences, FiniteSets, TLC

\* ---------------------------------------------------------------- bounds
MaxResolvers == 3   \* longest resolver list given to Resolve on its own
MaxLines == 2       \* longest input (stdin lines or wordlist lines)
Period == 2         \* clock steps in one limiter period (1s / rate)
MaxTime == 4        \* the clock stops here

\* ------------------------------------------------------- program constants
ChanCap == 100      \* make(chan string, 100)
Second == 1000000000    \* time.Second, in nanoseconds
DefaultRate == 10   \* flag.Int("rate", 10, ...)

\* ------------------------------------------------------------ DNS replies
IPs == {"10.0.0.1", "203.0.113.9"}

ARec(ip) == [rtype |-> "A", data |-> ip]
CnameRec == [rtype |-> "CNAME", data |-> "alias"]

\* What one Exchange with one resolver can come back with: a transport error
\* (timeout, refused, malformed), or a reply with a response code and answers.
TransportErr == [err |-> TRUE, rcode |-> "", answer |-> <<>>]
Reply(rc, ans) == [err |-> FALSE, rcode |-> rc, answer |-> ans]

Answers ==
    { <<>>, <<ARec("10.0.0.1")>>, <<ARec("203.0.113.9")>>,
      <<ARec("10.0.0.1"), ARec("203.0.113.9")>>,
      <<CnameRec, ARec("203.0.113.9")>> }

Exchanges ==
    {TransportErr, Reply("NXDOMAIN", <<>>), Reply("SERVFAIL", <<>>)}
        \cup { Reply("NOERROR", a) : a \in Answers }

\* ----------------------------------------------------------------- Resolve
RECURSIVE ARecords(_)
ARecords(answer) ==
    IF answer = <<>> THEN <<>>
    ELSE IF Head(answer).rtype = "A"
         THEN <<Head(answer).data>> \o ARecords(Tail(answer))
         ELSE ARecords(Tail(answer))

\* The result of a call that stopped at resolver i after querying `queried`.
ResolveOk(ips, queried) ==
    [ok |-> TRUE, ips |-> ips, err |-> "", queried |-> queried]
ResolveErr(e, queried) ==
    [ok |-> FALSE, ips |-> <<>>, err |-> e, queried |-> queried]

\* A faulty loop body: a non-success response code fails over like a
\* transport error instead of returning.
RECURSIVE ResolveFromFailoverOnRcode(_, _, _)
ResolveFromFailoverOnRcode(ex, i, queried) ==
    IF i > Len(ex) THEN ResolveErr("all resolvers failed", queried)
    ELSE IF ex[i].err \/ ex[i].rcode # "NOERROR"
         THEN ResolveFromFailoverOnRcode(ex, i + 1, Append(queried, i))
         ELSE ResolveOk(ARecords(ex[i].answer), Append(queried, i))

\* A faulty loop body: a transport error is returned to the caller instead
\* of trying the next resolver.
RECURSIVE ResolveFromNoFailover(_, _, _)
ResolveFromNoFailover(ex, i, queried) ==
    IF i > Len(ex) THEN ResolveErr("all resolvers failed", queried)
    ELSE IF ex[i].err
         THEN ResolveErr("exchange failed", Append(queried, i))
         ELSE IF ex[i].rcode # "NOERROR"
              THEN ResolveErr("DNS error", Append(queried, i))
              ELSE ResolveOk(ARecords(ex[i].answer), Append(queried, i))

\* for _, resolver := range d.Config.Resolvers { ... }: ex[i] is what the
\* Exchange with resolver i comes back with if it is made.
RECURSIVE ResolveFrom(_, _, _)
ResolveFrom(ex, i, queried) ==
    IF i > Len(ex) THEN ResolveErr("all resolvers failed", queried)
    ELSE IF ex[i].err
         THEN ResolveFrom(ex, i + 1, Append(queried, i))
         ELSE IF ex[i].rcode # "NOERROR"
              THEN ResolveErr("DNS error", Append(queried, i))
              ELSE ResolveOk(ARecords(ex[i].answer), Append(queried, i))

Resolve(ex) == ResolveFrom(ex, 1, <<>>)

\* --------------------------------------------------------- text helpers
\* strings.TrimSpace on a line held as a sequence of labels, where a run of
\* white space at either end is the pseudo-label " ".
RECURSIVE TrimLeft(_)
TrimLeft(line) ==
    IF line # <<>> /\ Head(line) = " " THEN TrimLeft(Tail(line)) ELSE line

RECURSIVE TrimRight(_)
TrimRight(line) ==
    IF line # <<>> /\ line[Len(line)] = " "
    THEN TrimRight(SubSeq(line, 1, Len(line) - 1))
    ELSE line

TrimSpace(line) == TrimRight(TrimLeft(line))

\* strings.Join(elems, sep) as a sequence of tokens.
RECURSIVE Join(_, _)
Join(elems, sep) ==
    IF Len(elems) = 0 THEN <<>>
    ELSE IF Len(elems) = 1 THEN <<elems[1]>>
    ELSE <<elems[1], sep>> \o Join(Tail(elems), sep)

\* fmt.Sprintf("%s [%s]", domain, strings.Join(ips, ", "))
FormatResult(domain, ips) ==
    Join(domain, ".") \o <<" [">> \o Join(ips, ", ") \o <<"]">>

\* parts[len(parts)-2] + "." + parts[len(parts)-1]
BaseDomain(parts) == <<parts[Len(parts) - 1], parts[Len(parts)]>>

SeqToSet(s) == { s[i] : i \in 1..Len(s) }

SeqsUpTo(S, n) == UNION { [1..k -> S] : k \in 0..n }

\* ---------------------------------------------------------- command line
DefaultResolvers == <<"8.8.8.8:53", "1.1.1.1:53">>

StdinLines == { <<" ">>, <<"a", "x", "com">>, <<"b", "y", "org">> }
WordlistLines == { <<" ">>, <<"www">>, <<"api">> }
BruteDomain == <<"example", "com">>

TestSubdomains ==
    <<"rand-time-pid", "probably-does-not-exist-123", "test-subdomain-wildcard-456">>

\* What the reply of the resolver pool to one lookup can be, for the
\* resolvers of this run.
ResolveResults ==
    { [ok |-> r.ok, ips |-> r.ips, err |-> r.err] :
        r \in { Resolve(ex) : ex \in [1..Len(DefaultResolvers) -> Exchanges] } }

VARIABLES
    args,          \* the flags and the state of the files they name
    mpc,           \* where main's goroutine is
    exitCode,      \* -1 while the process runs, else its exit status
    stderr,        \* kinds of error message written to os.Stderr (the
                   \* diagnostics of verbose mode are not kept)
    wildcardIPs,   \* d.wildcardIPs
    mutex,         \* d.mutex: who holds it
    outputFile,    \* d.outputFile: "nil", "open" or "closed"
    input,         \* the lines the scanner has returned so far
    domain,        \* the dispatch loop's current name
    dw,            \* DetectWildcard's frame: domain, index of the test
                   \* subdomain, ips of its lookup, where it returns to
    limiter,       \* the tick channel: -1 before time.Tick, -2 the nil
                   \* channel, else ticks buffered (0, 1)
    now,           \* clock steps since the limiter was made
    results,       \* the results channel's buffer
    resultsClosed, \* close(results) was called
    wg,            \* the WaitGroup's counter
    wpc, wdomain, wips, wout,   \* per spawned goroutine: position, name, ips, outcome
    cpc, cline,    \* the consumer goroutine: position and the result it holds
    stdout, file,  \* lines printed, lines appended to the output file
    admits,        \* clock time of each admission (permit taken)
    lookups,       \* Resolve calls started
    permits,       \* ticks the ticker put on the limiter channel
    rsIn, rsOut,   \* Resolve on its own: what each endpoint of a list
                   \* comes back with, and the result of the call
    source,        \* the lines the input (stdin or the wordlist) can hold
    probes         \* the calls of DetectWildcard so far: the input line
                   \* being worked on (0 before the loop), the domain, the
                   \* addresses its lookups returned, the lookups returned

vars ==
    <<args, mpc, exitCode, stderr, wildcardIPs, mutex, outputFile, input,
      domain, dw, limiter, now, results, resultsClosed, wg, wpc, wdomain,
      wips, wout, cpc, cline, stdout, file, admits, lookups, permits,
      rsIn, rsOut, source, probes>>

Workers == 1..MaxLines

WildcardCheck == ~args.noWildcard
Verbose == args.verbose

NoFrame == [domain |-> <<>>, idx |-> 0, ips |-> <<>>, ret |-> ""]

Running == exitCode = -1

mainVars == <<mpc, input, domain, dw>>
workerVars == <<wpc, wdomain, wips, wout>>
sinkVars == <<cpc, cline, stdout, file>>
chanVars == <<results, resultsClosed>>
timeVars == <<limiter, now, permits, admits>>
resolveVars == <<rsIn, rsOut>>

Unlocked == [by |-> "nobody", k |-> 0]
HeldByMain == [by |-> "main", k |-> 0]
HeldBy(k) == [by |-> "worker", k |-> k]

\* The runs: a mode (names piped in, brute force, or a terminal on stdin),
\* where the resolvers come from, whether the wordlist and the output file
\* can be opened, and the flags. -v only decides whether DetectWildcard
\* reports the set: it is tried in brute-force mode with wildcard checking
\* on and no output file here, and in both modes by InitProbe below.
ArgsSet ==
    { a \in [ mode : {"stream", "brute", "tty"},
              resolverSrc : {"flag", "file_unreadable", "file_empty"},
              wordlistOk : BOOLEAN,
              noWildcard : BOOLEAN,
              verbose : BOOLEAN,
              rate : {DefaultRate},
              outputFile : {"", "out.txt", "unwritable.txt"} ] :
        /\ a.mode # "brute" => a.wordlistOk
        /\ a.verbose =>
              (a.mode # "stream" /\ ~a.noWildcard /\ a.outputFile = "") }

Init ==
    /\ args \in ArgsSet
    /\ mpc = "load"
    /\ exitCode = -1
    /\ stderr = {}
    /\ wildcardIPs = {}
    /\ mutex = Unlocked
    /\ outputFile = "nil"
    /\ input = <<>>
    /\ domain = <<>>
    /\ dw = NoFrame
    /\ limiter = -1
    /\ now = 0
    /\ results = <<>>
    /\ resultsClosed = FALSE
    /\ wg = 0
    /\ wpc = [k \in Workers |-> "idle"]
    /\ wdomain = [k \in Workers |-> <<>>]
    /\ wips = [k \in Workers |-> <<>>]
    /\ wout = [k \in Workers |-> "none"]
    /\ cpc = "idle"
    /\ cline = <<>>
    /\ stdout = <<>>
    /\ file = <<>>
    /\ admits = <<>>
    /\ lookups = 0
    /\ permits = 0
    /\ rsIn = <<>>
    /\ rsOut = <<>>
    /\ source = IF args.mode = "brute" THEN WordlistLines ELSE StdinLines
    /\ probes = <<>>

\* os.Exit(code) after a message on os.Stderr: no deferred call runs.
Fatal(msg, code) ==
    /\ stderr' = stderr \cup {msg}
    /\ exitCode' = code
    /\ mpc' = "exited"

\* The resolvers main ends up with: the file's, or -resolvers split at commas.
Resolvers ==
    IF args.resolverSrc = "file_empty" THEN <<>> ELSE DefaultResolvers

\* main: load and validate the resolvers.
MainLoadResolvers ==
    /\ Running /\ mpc = "load"
    /\ IF args.resolverSrc = "file_unreadable"
       THEN Fatal("Error loading resolvers from file", 1)
       ELSE IF Len(Resolvers) = 0
            THEN Fatal("No DNS resolvers specified", 1)
            ELSE /\ mpc' = "new"
                 /\ UNCHANGED <<stderr, exitCode>>
    /\ UNCHANGED <<args, wildcardIPs, mutex, outputFile, input, domain, dw,
                   workerVars, sinkVars, chanVars, timeVars, wg, lookups,
                   resolveVars, source, probes>>

\* main: NewDNSEnumerator opens the output file; defer enumerator.Close().
MainNewEnumerator ==
    /\ Running /\ mpc = "new"
    /\ IF args.outputFile = "unwritable.txt"
       THEN /\ Fatal("Error initializing DNS enumerator", 1)
            /\ UNCHANGED outputFile
       ELSE /\ outputFile' = IF args.outputFile # "" THEN "open" ELSE "nil"
            /\ mpc' = "mode"
            /\ UNCHANGED <<stderr, exitCode>>
    /\ UNCHANGED <<args, wildcardIPs, mutex, input, domain, dw,
                   workerVars, sinkVars, chanVars, timeVars, wg, lookups,
                   resolveVars, source, probes>>

\* main: brute force when -d and -w are given (Bruteforce starts by calling
\* DetectWildcard), names from stdin when it is piped, else usage and exit 1.
MainMode ==
    /\ Running /\ mpc = "mode"
    /\ CASE args.mode = "brute" ->
              /\ mpc' = "dw_entry"
              /\ dw' = [domain |-> BruteDomain, idx |-> 0, ips |-> <<>>,
                        ret |-> "bf_open"]
              /\ UNCHANGED <<stderr, exitCode>>
         [] args.mode = "stream" ->
              /\ mpc' = "er_setup"
              /\ UNCHANGED <<stderr, exitCode, dw>>
         [] OTHER ->
              /\ Fatal("Usage", 1)
              /\ UNCHANGED dw
    /\ UNCHANGED <<args, wildcardIPs, mutex, outputFile, input, domain,
                   workerVars, sinkVars, chanVars, timeVars, wg, lookups,
                   resolveVars, source, probes>>

\* DetectWildcard returns to its caller.
DWReturn ==
    /\ mpc' = dw.ret
    /\ dw' = NoFrame

\* DetectWildcard: for _, sub := range testSubdomains, next round or done.
DWNext ==
    IF dw.idx < Len(TestSubdomains)
    THEN /\ dw' = [dw EXCEPT !.idx = @ + 1, !.ips = <<>>]
         /\ mpc' = "dw_resolve"
    ELSE /\ dw' = [dw EXCEPT !.ips = <<>>]
         /\ mpc' = "dw_len"

\* A faulty entry: DetectWildcard probes whatever the configuration says.
DW_EntryAlways ==
    /\ Running /\ mpc = "dw_entry"
    /\ probes' = Append(probes, [line |-> Len(input), domain |-> dw.domain,
                                 ips |-> {}, returned |-> 0])
    /\ dw' = [dw EXCEPT !.idx = 1]
    /\ mpc' = "dw_resolve"
    /\ UNCHANGED <<args, exitCode, stderr, wildcardIPs, mutex, outputFile,
                   input, domain, workerVars, sinkVars, chanVars, timeVars,
                   wg, lookups, resolveVars, source>>

\* DetectWildcard is entered: nothing to do unless wildcard checking is on.
DW_Entry ==
    /\ Running /\ mpc = "dw_entry"
    /\ probes' = Append(probes, [line |-> Len(input), domain |-> dw.domain,
                                 ips |-> {}, returned |-> 0])
    /\ IF ~WildcardCheck
       THEN DWReturn
       ELSE /\ dw' = [dw EXCEPT !.idx = 1]
            /\ mpc' = "dw_resolve"
    /\ UNCHANGED <<args, exitCode, stderr, wildcardIPs, mutex, outputFile,
                   input, domain, workerVars, sinkVars, chanVars, timeVars,
                   wg, lookups, resolveVars, source>>

\* A faulty probe: the addresses of a successful lookup are not recorded.
DW_ResolveDropsAnswer ==
    /\ Running /\ mpc = "dw_resolve"
    /\ \E r \in ResolveResults :
        /\ lookups' = lookups + 1
        /\ probes' = [probes EXCEPT
                        ![Len(probes)].ips = @ \cup SeqToSet(r.ips),
                        ![Len(probes)].returned = @ + 1]
        /\ DWNext
    /\ UNCHANGED <<args, exitCode, stderr, wildcardIPs, mutex, outputFile,
                   input, domain, workerVars, sinkVars, chanVars, timeVars,
                   wg, resolveVars, source>>

\* DetectWildcard: ips, err := d.Resolve(sub + "." + domain).
DW_Resolve ==
    /\ Running /\ mpc = "dw_resolve"
    /\ \E r \in ResolveResults :
        /\ lookups' = lookups + 1
        /\ probes' = [probes EXCEPT
                        ![Len(probes)].ips = @ \cup SeqToSet(r.ips),
                        ![Len(probes)].returned = @ + 1]
        /\ IF r.ok /\ Len(r.ips) > 0
           THEN /\ dw' = [dw EXCEPT !.ips = r.ips]
                /\ mpc' = "dw_lock"
           ELSE DWNext
    /\ UNCHANGED <<args, exitCode, stderr, wildcardIPs, mutex, outputFile,
                   input, domain, workerVars, sinkVars, chanVars, timeVars,
                   wg, resolveVars, source>>

\* DetectWildcard: d.mutex.Lock().
DW_Lock ==
    /\ Running /\ mpc = "dw_lock"
    /\ mutex = Unlocked
    /\ mutex' = HeldByMain
    /\ mpc' = "dw_write"
    /\ UNCHANGED <<args, exitCode, stderr, wildcardIPs, outputFile, input,
                   domain, dw, workerVars, sinkVars, chanVars, timeVars, wg,
                   lookups, resolveVars, source, probes>>

\* A faulty write: the set is made anew from the addresses of this lookup.
DW_WriteReplace ==
    /\ Running /\ mpc = "dw_write"
    /\ wildcardIPs' = SeqToSet(dw.ips)
    /\ mutex' = Unlocked
    /\ DWNext
    /\ UNCHANGED <<args, exitCode, stderr, outputFile, input, domain,
                   workerVars, sinkVars, chanVars, timeVars, wg, lookups,
                   resolveVars, source, probes>>

\* DetectWildcard: d.wildcardIPs[ip] = true for each ip, d.mutex.Unlock().
DW_Write ==
    /\ Running /\ mpc = "dw_write"
    /\ wildcardIPs' = wildcardIPs \cup SeqToSet(dw.ips)
    /\ mutex' = Unlocked
    /\ DWNext
    /\ UNCHANGED <<args, exitCode, stderr, outputFile, input, domain,
                   workerVars, sinkVars, chanVars, timeVars, wg, lookups,
                   resolveVars, source, probes>>

\* DetectWildcard: if len(d.wildcardIPs) > 0 && d.Config.Verbose, read
\* without the mutex.
DW_Len ==
    /\ Running /\ mpc = "dw_len"
    /\ IF Cardinality(wildcardIPs) > 0 /\ Verbose
       THEN /\ mpc' = "gw_lock"
            /\ UNCHANGED dw
       ELSE DWReturn
    /\ UNCHANGED <<args, exitCode, stderr, wildcardIPs, mutex, outputFile,
                   input, domain, workerVars, sinkVars, chanVars, timeVars,
                   wg, lookups, resolveVars, source, probes>>

\* getWildcardIPs: d.mutex.Lock().
GW_Lock ==
    /\ Running /\ mpc = "gw_lock"
    /\ mutex = Unlocked
    /\ mutex' = HeldByMain
    /\ mpc' = "gw_read"
    /\ UNCHANGED <<args, exitCode, stderr, wildcardIPs, outputFile, input,
                   domain, dw, workerVars, sinkVars, chanVars, timeVars, wg,
                   lookups, resolveVars, source, probes>>

\* getWildcardIPs: copy the set, deferred Unlock; DetectWildcard prints it.
GW_Read ==
    /\ Running /\ mpc = "gw_read"
    /\ mutex' = Unlocked
    /\ DWReturn
    /\ UNCHANGED <<args, exitCode, stderr, wildcardIPs, outputFile, input, domain,
                   workerVars, sinkVars, chanVars, timeVars, wg, lookups,
                   resolveVars, source, probes>>

\* time.Second / time.Duration(d.Config.RateLimit): integer division.
TickPeriod == Second \div args.rate

\* limiter := time.Tick(...), which returns a nil channel for a period <= 0;
\* results := make(chan string, 100); go consumer.
StartPipeline ==
    /\ limiter' = IF TickPeriod <= 0 THEN -2 ELSE 0
    /\ now' = 0
    /\ cpc' = "recv"
    /\ mpc' = "scan"

\* EnumerateFromReader up to its scan loop.
ER_Setup ==
    /\ Running /\ mpc = "er_setup"
    /\ StartPipeline
    /\ UNCHANGED <<args, exitCode, stderr, wildcardIPs, mutex, outputFile,
                   input, domain, dw, workerVars, cline, stdout, file,
                   chanVars, permits, admits, wg, lookups, resolveVars, source, probes>>

\* Bruteforce after DetectWildcard: open the wordlist, or report and return.
BF_Open ==
    /\ Running /\ mpc = "bf_open"
    /\ IF ~args.wordlistOk
       THEN /\ stderr' = stderr \cup {"Error opening wordlist"}
            /\ mpc' = "ret"
            /\ UNCHANGED <<limiter, now, cpc>>
       ELSE /\ StartPipeline
            /\ UNCHANGED stderr
    /\ UNCHANGED <<args, exitCode, wildcardIPs, mutex, outputFile,
                   input, domain, dw, workerVars, cline, stdout, file,
                   chanVars, permits, admits, wg, lookups, resolveVars, source, probes>>

\* scanner.Scan() and scanner.Text(): the end of the input, or one more
\* line of it (at most MaxLines lines arrive).
ScanResults(lines) ==
    {[eof |-> TRUE, text |-> <<>>]}
        \cup (IF Len(input) < MaxLines
              THEN { [eof |-> FALSE, text |-> l] : l \in lines }
              ELSE {})

\* A scan loop that remembers the suffixes it has probed and probes each
\* only once.
ER_ScanMemo ==
    /\ Running /\ mpc = "scan" /\ args.mode = "stream"
    /\ \E sc \in ScanResults(source) :
       IF sc.eof
       THEN /\ mpc' = "wait"
            /\ UNCHANGED <<input, domain, dw>>
       ELSE LET line == TrimSpace(sc.text) IN
            /\ input' = Append(input, sc.text)
            /\ IF line = <<>>
               THEN UNCHANGED <<mpc, domain, dw>>
               ELSE /\ domain' = line
                    /\ IF /\ WildcardCheck /\ Len(line) >= 2
                          /\ \A p \in 1..Len(probes) :
                                probes[p].domain # BaseDomain(line)
                       THEN /\ dw' = [domain |-> BaseDomain(line), idx |-> 0,
                                      ips |-> <<>>, ret |-> "permit"]
                            /\ mpc' = "dw_entry"
                       ELSE /\ mpc' = "permit"
                            /\ UNCHANGED dw
    /\ UNCHANGED <<args, exitCode, stderr, wildcardIPs, mutex, outputFile,
                   workerVars, sinkVars, chanVars, timeVars, wg, lookups,
                   resolveVars, source, probes>>

\* A faulty scan loop: the name goes to the limiter without the probe of
\* its base domain.
ER_ScanNoProbe ==
    /\ Running /\ mpc = "scan" /\ args.mode = "stream"
    /\ \E sc \in ScanResults(source) :
       IF sc.eof
       THEN /\ mpc' = "wait"
            /\ UNCHANGED <<input, domain, dw>>
       ELSE LET line == TrimSpace(sc.text) IN
            /\ input' = Append(input, sc.text)
            /\ IF line = <<>>
               THEN UNCHANGED <<mpc, domain, dw>>
               ELSE /\ domain' = line
                    /\ mpc' = "permit"
                    /\ UNCHANGED dw
    /\ UNCHANGED <<args, exitCode, stderr, wildcardIPs, mutex, outputFile,
                   workerVars, sinkVars, chanVars, timeVars, wg, lookups,
                   resolveVars, source, probes>>

\* EnumerateFromReader: scanner.Scan(), skip a blank line, probe the base
\* domain of the name when wildcard checking is on.
ER_Scan ==
    /\ Running /\ mpc = "scan" /\ args.mode = "stream"
    /\ \E sc \in ScanResults(source) :
       IF sc.eof
       THEN /\ mpc' = "wait"
            /\ UNCHANGED <<input, domain, dw>>
       ELSE LET line == TrimSpace(sc.text) IN
            /\ input' = Append(input, sc.text)
            /\ IF line = <<>>
               THEN UNCHANGED <<mpc, domain, dw>>
               ELSE /\ domain' = line
                    /\ IF WildcardCheck /\ Len(line) >= 2
                       THEN /\ dw' = [domain |-> BaseDomain(line), idx |-> 0,
                                      ips |-> <<>>, ret |-> "permit"]
                            /\ mpc' = "dw_entry"
                       ELSE /\ mpc' = "permit"
                            /\ UNCHANGED dw
    /\ UNCHANGED <<args, exitCode, stderr, wildcardIPs, mutex, outputFile,
                   workerVars, sinkVars, chanVars, timeVars, wg, lookups,
                   resolveVars, source, probes>>

\* Bruteforce: scanner.Scan(), skip a blank line, fullDomain := sub + "." + domain.
BF_Scan ==
    /\ Running /\ mpc = "scan" /\ args.mode = "brute"
    /\ \E sc \in ScanResults(source) :
       IF sc.eof
       THEN /\ mpc' = "wait"
            /\ UNCHANGED <<input, domain>>
       ELSE LET sub == TrimSpace(sc.text) IN
            /\ input' = Append(input, sc.text)
            /\ IF sub = <<>>
               THEN UNCHANGED <<mpc, domain>>
               ELSE /\ domain' = sub \o BruteDomain
                    /\ mpc' = "permit"
    /\ UNCHANGED <<args, exitCode, stderr, wildcardIPs, mutex, outputFile, dw,
                   workerVars, sinkVars, chanVars, timeVars, wg, lookups,
                   resolveVars, source, probes>>

Spawned == { k \in Workers : wpc[k] # "idle" }

\* <-limiter; wg.Add(1); go func(dmn) {...}(domain): one permit, one worker.
Admit ==
    /\ Running /\ mpc = "permit"
    /\ limiter = 1
    /\ limiter' = 0
    /\ admits' = Append(admits, now)
    /\ wg' = wg + 1
    /\ LET k == Cardinality(Spawned) + 1 IN
        /\ wpc' = [wpc EXCEPT ![k] = "resolve"]
        /\ wdomain' = [wdomain EXCEPT ![k] = domain]
    /\ mpc' = "scan"
    /\ UNCHANGED <<args, exitCode, stderr, wildcardIPs, mutex, outputFile,
                   input, domain, dw, wips, wout, sinkVars, chanVars, now,
                   permits, lookups, resolveVars, source, probes>>

\* A faulty loop end: close(results) without waiting for the workers.
WaitNoBarrier ==
    /\ Running /\ mpc = "wait"
    /\ mpc' = "close"
    /\ UNCHANGED <<args, exitCode, stderr, wildcardIPs, mutex, outputFile,
                   input, domain, dw, workerVars, sinkVars, chanVars,
                   timeVars, wg, lookups, resolveVars, source, probes>>

\* wg.Wait()
Wait ==
    /\ Running /\ mpc = "wait"
    /\ wg = 0
    /\ mpc' = "close"
    /\ UNCHANGED <<args, exitCode, stderr, wildcardIPs, mutex, outputFile,
                   input, domain, dw, workerVars, sinkVars, chanVars,
                   timeVars, wg, lookups, resolveVars, source, probes>>

\* close(results), and the enumeration returns to main.
Close ==
    /\ Running /\ mpc = "close"
    /\ resultsClosed' = TRUE
    /\ mpc' = "ret"
    /\ UNCHANGED <<args, exitCode, stderr, wildcardIPs, mutex, outputFile,
                   input, domain, dw, workerVars, sinkVars, results,
                   timeVars, wg, lookups, resolveVars, source, probes>>

\* main returns: the deferred enumerator.Close() closes the output file.
MainReturn ==
    /\ Running /\ mpc = "ret"
    /\ outputFile' = IF outputFile # "nil" THEN "closed" ELSE outputFile
    /\ mpc' = "exiting"
    /\ UNCHANGED <<args, exitCode, stderr, wildcardIPs, mutex, input,
                   domain, dw, workerVars, sinkVars, chanVars, timeVars, wg,
                   lookups, resolveVars, source, probes>>

\* The runtime ends the process once main has returned, whatever the other
\* goroutines are doing.
MainExit ==
    /\ Running /\ mpc = "exiting"
    /\ exitCode' = 0
    /\ mpc' = "exited"
    /\ UNCHANGED <<args, stderr, wildcardIPs, mutex, outputFile, input,
                   domain, dw, workerVars, sinkVars, chanVars, timeVars, wg,
                   lookups, resolveVars, source, probes>>

\* ------------------------------------------------------ resolution workers
\* A faulty loop: only the first address is looked up in the set.
FirstInSet(ips, set) == Len(ips) > 0 /\ ips[1] \in set

\* A faulty loop: a response without addresses counts as a wildcard response.
AnyInSetOrNone(ips, set) ==
    Len(ips) = 0 \/ \E i \in 1..Len(ips) : ips[i] \in set

\* isWildcardResponse's loop: for _, ip := range ips { if d.wildcardIPs[ip] ... }
AnyInSet(ips, set) == \E i \in 1..Len(ips) : ips[i] \in set

\* isWildcardResponse as a whole, on one value of the set.
isWildcardResponse(ips, set) ==
    IF Cardinality(set) = 0 THEN FALSE ELSE AnyInSet(ips, set)

\* defer wg.Done() as ProcessDomain returns with the given outcome.
WorkerDone(k, outcome) ==
    /\ wpc' = [wpc EXCEPT ![k] = "done"]
    /\ wout' = [wout EXCEPT ![k] = outcome]
    /\ wg' = wg - 1

\* ProcessDomain: ips, err := d.Resolve(domain); an error ends the worker.
W_Resolve(k) ==
    /\ Running /\ wpc[k] = "resolve"
    /\ \E r \in ResolveResults :
        /\ lookups' = lookups + 1
        /\ IF ~r.ok
           THEN /\ WorkerDone(k, "error")
                /\ UNCHANGED wips
           ELSE /\ wips' = [wips EXCEPT ![k] = r.ips]
                /\ wpc' = [wpc EXCEPT ![k] =
                              IF WildcardCheck THEN "iw_len" ELSE "send"]
                /\ UNCHANGED <<wout, wg>>
    /\ UNCHANGED <<args, exitCode, stderr, wildcardIPs, mutex, outputFile,
                   mainVars, wdomain, sinkVars, chanVars, timeVars,
                   resolveVars, source, probes>>

\* isWildcardResponse: if len(d.wildcardIPs) == 0 { return false }, read
\* without the mutex.
W_IwLen(k) ==
    /\ Running /\ wpc[k] = "iw_len"
    /\ wpc' = [wpc EXCEPT ![k] =
                  IF Cardinality(wildcardIPs) = 0 THEN "send" ELSE "iw_lock"]
    /\ UNCHANGED <<args, exitCode, stderr, wildcardIPs, mutex, outputFile,
                   mainVars, wdomain, wips, wout, sinkVars, chanVars,
                   timeVars, wg, lookups, resolveVars, source, probes>>

\* isWildcardResponse: d.mutex.Lock().
W_IwLock(k) ==
    /\ Running /\ wpc[k] = "iw_lock"
    /\ mutex = Unlocked
    /\ mutex' = HeldBy(k)
    /\ wpc' = [wpc EXCEPT ![k] = "iw_check"]
    /\ UNCHANGED <<args, exitCode, stderr, wildcardIPs, outputFile,
                   mainVars, wdomain, wips, wout, sinkVars, chanVars,
                   timeVars, wg, lookups, resolveVars, source, probes>>

\* isWildcardResponse: the loop and the deferred Unlock; ProcessDomain drops
\* a wildcard response.
W_IwCheck(k) ==
    /\ Running /\ wpc[k] = "iw_check"
    /\ mutex' = Unlocked
    /\ IF AnyInSet(wips[k], wildcardIPs)
       THEN WorkerDone(k, "filtered")
       ELSE /\ wpc' = [wpc EXCEPT ![k] = "send"]
            /\ UNCHANGED <<wout, wg>>
    /\ UNCHANGED <<args, exitCode, stderr, wildcardIPs, outputFile, mainVars,
                   wdomain, wips, sinkVars, chanVars, timeVars, lookups,
                   resolveVars, source, probes>>

\* A faulty worker: the goroutine reads the loop's variable domain instead
\* of its own parameter dmn.
W_SendLoopVariable(k) ==
    /\ Running /\ wpc[k] = "send"
    /\ IF resultsClosed
       THEN /\ exitCode' = 2
            /\ UNCHANGED <<results, wpc, wout, wg>>
       ELSE /\ Len(results) < ChanCap
            /\ results' = Append(results, FormatResult(domain, wips[k]))
            /\ wpc' = [wpc EXCEPT ![k] = "done"]
            /\ wout' = [wout EXCEPT ![k] = "emitted"]
            /\ wg' = wg - 1
            /\ UNCHANGED exitCode
    /\ UNCHANGED <<args, stderr, wildcardIPs, mutex, outputFile, mainVars,
                   wdomain, wips, sinkVars, resultsClosed, timeVars, lookups,
                   resolveVars, source, probes>>

\* ProcessDomain: results <- fmt.Sprintf(...). A send on a closed channel
\* panics and the process dies with status 2.
W_Send(k) ==
    /\ Running /\ wpc[k] = "send"
    /\ IF resultsClosed
       THEN /\ exitCode' = 2
            /\ UNCHANGED <<results, wpc, wout, wg>>
       ELSE /\ Len(results) < ChanCap
            /\ results' = Append(results, FormatResult(wdomain[k], wips[k]))
            /\ WorkerDone(k, "emitted")
            /\ UNCHANGED exitCode
    /\ UNCHANGED <<args, stderr, wildcardIPs, mutex, outputFile, mainVars,
                   wdomain, wips, sinkVars, resultsClosed, timeVars, lookups,
                   resolveVars, source, probes>>

\* -------------------------------------------------------------- the sink
\* A faulty receive: the consumer reads the head of the queue and leaves it
\* there.
C_RecvPeek ==
    /\ Running /\ cpc = "recv"
    /\ IF Len(results) > 0
       THEN /\ cline' = Head(results)
            /\ cpc' = "println"
            /\ UNCHANGED results
       ELSE /\ resultsClosed
            /\ cpc' = "done"
            /\ UNCHANGED <<cline, results>>
    /\ UNCHANGED <<args, exitCode, stderr, wildcardIPs, mutex, outputFile,
                   mainVars, workerVars, stdout, file, resultsClosed,
                   timeVars, wg, lookups, resolveVars, source, probes>>

\* for result := range results: take one, or leave when closed and drained.
C_Recv ==
    /\ Running /\ cpc = "recv"
    /\ IF Len(results) > 0
       THEN /\ cline' = Head(results)
            /\ results' = Tail(results)
            /\ cpc' = "println"
       ELSE /\ resultsClosed
            /\ cpc' = "done"
            /\ UNCHANGED <<cline, results>>
    /\ UNCHANGED <<args, exitCode, stderr, wildcardIPs, mutex, outputFile,
                   mainVars, workerVars, stdout, file, resultsClosed,
                   timeVars, wg, lookups, resolveVars, source, probes>>

\* WriteOutput: fmt.Println(result).
C_Println ==
    /\ Running /\ cpc = "println"
    /\ stdout' = Append(stdout, cline)
    /\ cpc' = IF outputFile # "nil" THEN "file" ELSE "recv"
    /\ UNCHANGED <<args, exitCode, stderr, wildcardIPs, mutex, outputFile,
                   mainVars, workerVars, cline, file, chanVars, timeVars, wg,
                   lookups, resolveVars, source, probes>>

\* WriteOutput: d.outputFile.WriteString(result + "\n"); the error of a
\* write to a closed file is dropped.
C_WriteFile ==
    /\ Running /\ cpc = "file"
    /\ file' = IF outputFile = "open" THEN Append(file, cline) ELSE file
    /\ cpc' = "recv"
    /\ UNCHANGED <<args, exitCode, stderr, wildcardIPs, mutex, outputFile,
                   mainVars, workerVars, cline, stdout, chanVars, timeVars,
                   wg, lookups, resolveVars, source, probes>>

\* ------------------------------------------------------------- the ticker
\* One clock step passes. Every Period steps the ticker sends on its channel
\* of capacity 1, and drops the tick when the channel is full.
Tick ==
    /\ Running /\ limiter >= 0
    /\ now < MaxTime
    /\ now' = now + 1
    /\ IF (now + 1) % Period = 0 /\ limiter = 0
       THEN /\ limiter' = 1
            /\ permits' = permits + 1
       ELSE UNCHANGED <<limiter, permits>>
    /\ UNCHANGED <<args, exitCode, stderr, wildcardIPs, mutex, outputFile,
                   mainVars, workerVars, sinkVars, chanVars, admits, wg,
                   lookups, resolveVars, source, probes>>

Next ==
    \/ MainLoadResolvers \/ MainNewEnumerator \/ MainMode
    \/ DW_Entry \/ DW_Resolve \/ DW_Lock \/ DW_Write \/ DW_Len
    \/ GW_Lock \/ GW_Read
    \/ ER_Setup \/ BF_Open \/ ER_Scan \/ BF_Scan
    \/ Admit \/ Wait \/ Close \/ MainReturn \/ MainExit
    \/ \E k \in Workers :
        W_Resolve(k) \/ W_IwLen(k) \/ W_IwLock(k) \/ W_IwCheck(k) \/ W_Send(k)
    \/ C_Recv \/ C_Println \/ C_WriteFile
    \/ Tick

Spec == Init /\ [][Next]_vars

\* ----------------------------------------------- the runs that probe
\* Both modes with wildcard checking on and -v, and piped input that also
\* holds a name of one label.
StreamLines == StdinLines \cup { <<"host">> }

InitProbe ==
    /\ args \in { [a EXCEPT !.verbose = TRUE] :
                    a \in { b \in ArgsSet : /\ b.mode \in {"stream", "brute"}
                                            /\ b.resolverSrc = "flag"
                                            /\ ~b.noWildcard
                                            /\ b.outputFile = "" } }
    /\ mpc = "load"
    /\ exitCode = -1
    /\ stderr = {}
    /\ wildcardIPs = {}
    /\ mutex = Unlocked
    /\ outputFile = "nil"
    /\ input = <<>>
    /\ domain = <<>>
    /\ dw = NoFrame
    /\ limiter = -1
    /\ now = 0
    /\ results = <<>>
    /\ resultsClosed = FALSE
    /\ wg = 0
    /\ wpc = [k \in Workers |-> "idle"]
    /\ wdomain = [k \in Workers |-> <<>>]
    /\ wips = [k \in Workers |-> <<>>]
    /\ wout = [k \in Workers |-> "none"]
    /\ cpc = "idle"
    /\ cline = <<>>
    /\ stdout = <<>>
    /\ file = <<>>
    /\ admits = <<>>
    /\ lookups = 0
    /\ permits = 0
    /\ rsIn = <<>>
    /\ rsOut = <<>>
    /\ source = IF args.mode = "brute" THEN WordlistLines ELSE StreamLines
    /\ probes = <<>>

NextProbe ==
    \/ MainLoadResolvers \/ MainNewEnumerator \/ MainMode
    \/ DW_Entry \/ DW_Resolve \/ DW_Lock \/ DW_Write \/ DW_Len
    \/ GW_Lock \/ GW_Read
    \/ ER_Setup \/ BF_Open \/ ER_Scan \/ BF_Scan
    \/ Admit \/ Wait \/ Close \/ MainReturn \/ MainExit
    \/ \E k \in Workers :
        W_Resolve(k) \/ W_IwLen(k) \/ W_IwLock(k) \/ W_IwCheck(k) \/ W_Send(k)
    \/ C_Recv \/ C_Println
    \/ Tick

SpecProbe == InitProbe /\ [][NextProbe]_vars

\* ------------------------------------------------ runs to their end
\* Both modes with wildcard checking on and -v, at the default rate and at
\* a rate above one per nanosecond. The ticker goes on ticking after the
\* clock of the model has stopped counting.
LiveRates == {DefaultRate, 2 * Second}

InitLive ==
    /\ args \in { [a EXCEPT !.rate = r, !.verbose = TRUE] :
                    a \in { b \in ArgsSet : /\ b.mode \in {"stream", "brute"}
                                            /\ b.resolverSrc = "flag"
                                            /\ b.wordlistOk
                                            /\ ~b.noWildcard
                                            /\ b.outputFile = "" },
                    r \in LiveRates }
    /\ mpc = "load"
    /\ exitCode = -1
    /\ stderr = {}
    /\ wildcardIPs = {}
    /\ mutex = Unlocked
    /\ outputFile = "nil"
    /\ input = <<>>
    /\ domain = <<>>
    /\ dw = NoFrame
    /\ limiter = -1
    /\ now = 0
    /\ results = <<>>
    /\ resultsClosed = FALSE
    /\ wg = 0
    /\ wpc = [k \in Workers |-> "idle"]
    /\ wdomain = [k \in Workers |-> <<>>]
    /\ wips = [k \in Workers |-> <<>>]
    /\ wout = [k \in Workers |-> "none"]
    /\ cpc = "idle"
    /\ cline = <<>>
    /\ stdout = <<>>
    /\ file = <<>>
    /\ admits = <<>>
    /\ lookups = 0
    /\ permits = 0
    /\ rsIn = <<>>
    /\ rsOut = <<>>
    /\ source = IF args.mode = "brute" THEN WordlistLines ELSE StdinLines
    /\ probes = <<>>

\* The ticker after MaxTime clock steps: it sends when its channel is empty.
TickOn ==
    /\ Running /\ limiter = 0
    /\ now = MaxTime
    /\ limiter' = 1
    /\ permits' = permits + 1
    /\ UNCHANGED <<args, exitCode, stderr, wildcardIPs, mutex, outputFile,
                   mainVars, workerVars, sinkVars, chanVars, now, admits, wg,
                   lookups, resolveVars, source, probes>>

MainStep ==
    \/ MainLoadResolvers \/ MainNewEnumerator \/ MainMode
    \/ DW_Entry \/ DW_Resolve \/ DW_Lock \/ DW_Write \/ DW_Len
    \/ GW_Lock \/ GW_Read
    \/ ER_Setup \/ BF_Open \/ ER_Scan \/ BF_Scan
    \/ Admit \/ Wait \/ Close \/ MainReturn \/ MainExit

WorkerStep(k) ==
    W_Resolve(k) \/ W_IwLen(k) \/ W_IwLock(k) \/ W_IwCheck(k) \/ W_Send(k)

ConsumerStep == C_Recv \/ C_Println

TickerStep == Tick \/ TickOn

NextLive ==
    \/ MainStep
    \/ \E k \in Workers : WorkerStep(k)
    \/ ConsumerStep
    \/ TickerStep

\* Every goroutine that can take a step, and the ticker, eventually does.
Fairness ==
    /\ WF_vars(MainStep)
    /\ \A k \in Workers : WF_vars(WorkerStep(k))
    /\ WF_vars(ConsumerStep)
    /\ WF_vars(TickerStep)

SpecLive == InitLive /\ [][NextLive]_vars /\ Fairness

\* ------------------------------------------------- Resolve on its own
\* One call of Resolve against every resolver list of up to MaxResolvers
\* endpoints and every combination of what the endpoints come back with.
InitResolve ==
    /\ rsIn \in SeqsUpTo(Exchanges, MaxResolvers) \ {<<>>}
    /\ rsOut = <<>>
    /\ args = [mode |-> "tty", resolverSrc |-> "flag", wordlistOk |-> TRUE,
               noWildcard |-> FALSE, verbose |-> FALSE, rate |-> DefaultRate,
               outputFile |-> ""]
    /\ mpc = "resolve"
    /\ exitCode = -1
    /\ stderr = {}
    /\ wildcardIPs = {}
    /\ mutex = Unlocked
    /\ outputFile = "nil"
    /\ input = <<>>
    /\ domain = <<>>
    /\ dw = NoFrame
    /\ limiter = -1
    /\ now = 0
    /\ results = <<>>
    /\ resultsClosed = FALSE
    /\ wg = 0
    /\ wpc = [k \in Workers |-> "idle"]
    /\ wdomain = [k \in Workers |-> <<>>]
    /\ wips = [k \in Workers |-> <<>>]
    /\ wout = [k \in Workers |-> "none"]
    /\ cpc = "idle"
    /\ cline = <<>>
    /\ stdout = <<>>
    /\ file = <<>>
    /\ admits = <<>>
    /\ lookups = 0
    /\ permits = 0
    /\ source = {}
    /\ probes = <<>>

CallResolve ==
    /\ mpc = "resolve"
    /\ rsOut = <<>>
    /\ rsOut' = <<Resolve(rsIn)>>
    /\ mpc' = "resolved"
    /\ UNCHANGED <<args, exitCode, stderr, wildcardIPs, mutex, outputFile,
                   input, domain, dw, workerVars, sinkVars, chanVars,
                   timeVars, wg, lookups, rsIn, source, probes>>

NextResolve == CallResolve

SpecResolve == InitResolve /\ [][NextResolve]_vars

\* ------------------------------------------------------------------ claims
Returned == rsOut # <<>>
Ret == rsOut[1]

\* The first endpoint of the list that completes an exchange, 0 if none does.
FirstCompleted ==
    IF \E i \in 1..Len(rsIn) : ~rsIn[i].err
    THEN CHOOSE i \in 1..Len(rsIn) :
            ~rsIn[i].err /\ \A j \in 1..(i - 1) : rsIn[j].err
    ELSE 0

\* C3: one call of Resolve queries the endpoints in list order, each only
\* after the one before it failed at the transport level, and stops at the
\* first endpoint that completes an exchange, whatever its response code: no
\* later endpoint is queried, and a non-success code is returned as an error.
C3_OrderedStopAtFirstCompleted ==
    Returned =>
        /\ \E n \in 0..Len(rsIn) : Ret.queried = [i \in 1..n |-> i]
        /\ \A i \in 1..(Len(Ret.queried) - 1) : rsIn[Ret.queried[i]].err
        /\ FirstCompleted # 0 =>
              /\ Ret.queried = [i \in 1..FirstCompleted |-> i]
              /\ rsIn[FirstCompleted].rcode # "NOERROR" =>
                    ~Ret.ok /\ Ret.err = "DNS error"
              /\ rsIn[FirstCompleted].rcode = "NOERROR" => Ret.ok

\* A call that met a transport failure, then a non-success response code,
\* while a later endpoint would have answered.
C3_Witness ==
    /\ Returned
    /\ Len(rsIn) = 3
    /\ rsIn[1].err
    /\ ~rsIn[2].err /\ rsIn[2].rcode = "NXDOMAIN"
    /\ ~rsIn[3].err /\ rsIn[3].rcode = "NOERROR"
    /\ Ret.queried = <<1, 2>>

\* C4: Resolve returns "all resolvers failed" iff every endpoint failed at
\* the transport level, otherwise the outcome of the first endpoint that
\* completed an exchange; and it queries each endpoint at most once.
C4_AllFailedIffAllTransport ==
    Returned =>
        /\ (~Ret.ok /\ Ret.err = "all resolvers failed")
              <=> (\A i \in 1..Len(rsIn) : rsIn[i].err)
        /\ FirstCompleted # 0 =>
              IF rsIn[FirstCompleted].rcode = "NOERROR"
              THEN Ret.ok /\ Ret.ips = ARecords(rsIn[FirstCompleted].answer)
              ELSE ~Ret.ok /\ Ret.err = "DNS error"
        /\ \A i, j \in 1..Len(Ret.queried) :
              Ret.queried[i] = Ret.queried[j] => i = j
        /\ Len(Ret.queried) <= Len(rsIn)

\* A call that failed over past two transport failures and returned the
\* answer of the third endpoint, and not an error.
C4_Witness ==
    /\ Returned
    /\ Len(rsIn) = 3
    /\ rsIn[1].err /\ rsIn[2].err /\ ~rsIn[3].err
    /\ Ret.ok /\ Ret.ips = <<"10.0.0.1">>
    /\ Ret.queried = <<1, 2, 3>>

Count(seq, x) == Cardinality({ i \in 1..Len(seq) : seq[i] = x })

Emitted == { k \in Workers : wout[k] = "emitted" }
LineOf(k) == FormatResult(wdomain[k], wips[k])

\* The lines the sink holds or has printed: queued, taken and not yet
\* printed, printed.
SinkLines ==
    results \o (IF cpc = "println" THEN <<cline>> ELSE <<>>) \o stdout

\* The names the dispatch loop makes of the input read so far.
CandidateNames ==
    { IF args.mode = "brute"
      THEN TrimSpace(input[i]) \o BruteDomain
      ELSE TrimSpace(input[i]) :
        i \in { j \in 1..Len(input) : TrimSpace(input[j]) # <<>> } }

\* C1: when the run has ended, every name whose lookup succeeded and was not
\* filtered has exactly one line on the output: no line handed to the sink
\* is still unwritten when the process terminates.
C1_AllResultsWritten ==
    exitCode = 0 =>
        /\ Len(stdout) = Cardinality(Emitted)
        /\ \A k \in Emitted :
              Count(stdout, LineOf(k))
                 = Cardinality({ j \in Emitted : LineOf(j) = LineOf(k) })

\* C2: every spawned worker is of a name the dispatch loop read, a worker
\* has an outcome exactly when it is done, every line in the sink or on the
\* output is the line of a worker that emitted, and there are as many copies
\* of it as workers that emitted it: nothing twice, nothing from nowhere.
C2_OneResultPerDispatch ==
    /\ \A k \in Workers :
          /\ wpc[k] # "idle" => wdomain[k] \in CandidateNames
          /\ wout[k] # "none" <=> wpc[k] = "done"
    /\ Cardinality(Spawned) = Len(admits)
    /\ \A i \in 1..Len(SinkLines) :
          /\ \E k \in Emitted : SinkLines[i] = LineOf(k)
          /\ Count(SinkLines, SinkLines[i])
                = Cardinality({ k \in Emitted : LineOf(k) = SinkLines[i] })
    /\ Len(SinkLines) = Cardinality(Emitted)
    /\ \A i \in 1..Len(file) : Count(file, file[i]) <= Count(stdout, file[i])

\* Two workers of different names have emitted and both lines are printed.
C2_Witness ==
    /\ Cardinality(Emitted) = 2
    /\ \A j, k \in Emitted : j # k => wdomain[j] # wdomain[k]
    /\ Len(stdout) = 2

\* C5: with wildcard checking on, the filter decision of a worker follows
\* the set as it is when the decision is made: the result is dropped iff the
\* set is non-empty and holds one of the resolved addresses; the set never
\* loses an address, so an address recorded by a probe filters every later
\* name that resolves to it; no successful lookup skips the decision.
C5_FilterIffIntersects ==
    [][ /\ wildcardIPs \subseteq wildcardIPs'
        /\ \A k \in Workers :
            /\ (wpc[k] \in {"iw_len", "iw_check"} /\ wpc'[k] \in {"send", "done"})
                  => ((wpc'[k] = "done" /\ wout'[k] = "filtered")
                        <=> (wildcardIPs # {}
                             /\ SeqToSet(wips[k]) \cap wildcardIPs # {}))
            /\ (wpc[k] = "resolve" /\ wpc'[k] = "send") => ~WildcardCheck
            /\ (wpc[k] = "send" /\ wpc'[k] = "done" /\ WildcardCheck)
                  => wout'[k] = "emitted"
      ]_vars

\* After a probe recorded 203.0.113.9, one worker whose name resolved to it
\* (among others) was filtered and one whose name resolved elsewhere emitted.
C5_Witness ==
    /\ "203.0.113.9" \in wildcardIPs
    /\ \E j, k \in Workers :
        /\ wout[j] = "filtered" /\ wips[j] = <<"10.0.0.1", "203.0.113.9">>
        /\ wout[k] = "emitted" /\ wips[k] = <<"10.0.0.1">>

\* C6: between the first and the last of N >= 2 admissions at least N-1
\* limiter periods have passed.
C6_ElapsedAtLeastPeriods ==
    Len(admits) >= 2 =>
        admits[Len(admits)] - admits[1] >= (Len(admits) - 1) * Period

\* C7: every lookup started is preceded by its own permit: lookups started
\* never exceed permits released.
C7_LookupsWithinPermits == lookups <= permits

\* A run whose configuration is fatally wrong: no resolver, a resolver file
\* or a wordlist that cannot be read.
ConfigError ==
    \/ args.resolverSrc \in {"file_unreadable", "file_empty"}
    \/ args.mode = "brute" /\ ~args.wordlistOk

\* C8: a fatal configuration error is reported on the error stream and ends
\* the process with a non-zero status before any lookup has begun.
C8_ConfigErrorFatalBeforeLookups ==
    ConfigError =>
        /\ lookups = 0
        /\ exitCode # -1 => (exitCode # 0 /\ stderr # {})

\* The wordlist could not be opened, which was reported, and the process
\* ended with status 0.
C8_WordlistErrorExitZero ==
    /\ args.mode = "brute" /\ ~args.wordlistOk
    /\ "Error opening wordlist" \in stderr
    /\ exitCode = 0

\* C9: with an output file, at the end of the run the file holds exactly
\* the lines printed, in the same order.
C9_FileEqualsStdout ==
    (exitCode = 0 /\ args.outputFile = "out.txt") => file = stdout

\* C10: every access to the wildcard set, its size included, is made by the
\* holder of the mutex, so no worker reads it while a probe is writing it.
C10_AccessUnderMutex ==
    /\ mpc \in {"dw_write", "dw_len", "gw_read"} => mutex = HeldByMain
    /\ \A k \in Workers :
          wpc[k] \in {"iw_len", "iw_check"} => mutex = HeldBy(k)
    /\ ~(mpc = "dw_write" /\ \E k \in Workers : wpc[k] = "iw_len")

\* In streaming mode the worker of an earlier name is at its read of the
\* set's size, without the mutex, while the probe of a later line holds the
\* mutex and is about to write the set.
C10_ReadDuringWrite ==
    /\ args.mode = "stream"
    /\ mpc = "dw_write" /\ mutex = HeldByMain
    /\ \E k \in Workers : wpc[k] = "iw_len" /\ wdomain[k] # domain

\* The lines read so far that the dispatch loop does not skip as blank.
NonBlank == { i \in 1..Len(input) : TrimSpace(input[i]) # <<>> }

\* C11: the results channel is closed only after the input is exhausted and
\* every spawned worker has finished: no worker sends on it, or waits to,
\* once it is closed (no send panics), close is called once, on an open
\* channel, and a run that started its pipeline and ended has closed it.
C11_ClosedAfterWorkersDone ==
    /\ exitCode # 2
    /\ mpc = "close" =>
          /\ ~resultsClosed
          /\ \A k \in Workers : wpc[k] \in {"idle", "done"}
    /\ resultsClosed =>
          /\ mpc \in {"ret", "exiting", "exited"}
          /\ wg = 0
          /\ \A k \in Workers : wpc[k] \in {"idle", "done"}
          /\ Cardinality(Spawned) = Cardinality(NonBlank)
    /\ (exitCode = 0 /\ limiter # -1) => resultsClosed

\* The channel is closed after two workers were spawned, one of which sent
\* its line.
C11_Witness ==
    /\ resultsClosed
    /\ Cardinality(Spawned) = 2
    /\ \E k \in Workers : wout[k] = "emitted"

\* Workers are spawned in the order of the lines: the line of worker k is
\* the k-th line that is not blank.
WorkerLine(k) ==
    CHOOSE i \in NonBlank : Cardinality({ j \in NonBlank : j <= i }) = k

\* DetectWildcard was called for line i with the given domain.
Probed(i, d) ==
    \E p \in 1..Len(probes) : probes[p].line = i /\ probes[p].domain = d

\* C12: in streaming mode with wildcard checking on, the probe of the
\* two-label suffix of every dispatched name has been invoked for the
\* name's line by the time the name's worker exists.
C12_ProbeInvokedBeforeWorker ==
    (args.mode = "stream" /\ WildcardCheck) =>
        \A k \in Spawned :
            /\ Len(wdomain[k]) >= 2
            /\ Probed(WorkerLine(k), BaseDomain(wdomain[k]))

\* C12 as amended: the same for every dispatched name of at least two
\* labels.
C12_ProbeInvokedBeforeWorkerOfSuffix ==
    (args.mode = "stream" /\ WildcardCheck) =>
        \A k \in Spawned :
            Len(wdomain[k]) >= 2 =>
                Probed(WorkerLine(k), BaseDomain(wdomain[k]))

\* The worker of the second line, a name of three labels, has just been
\* started and has not resolved yet; the probe of its line was invoked.
C12_Witness ==
    /\ args.mode = "stream" /\ WildcardCheck
    /\ wpc[2] = "resolve" /\ Len(wdomain[2]) = 3
    /\ Probed(WorkerLine(2), BaseDomain(wdomain[2]))

\* How many times DetectWildcard was called for line i (0: before the loop).
ProbesOfLine(i) == Cardinality({ p \in 1..Len(probes) : probes[p].line = i })

\* The scan loop has read a line and is about to enter DetectWildcard for it.
ProbePending(i) == mpc = "dw_entry" /\ i = Len(input)

\* Bruteforce has called DetectWildcard and it has been entered.
BruteProbed == args.mode = "brute" /\ mpc \notin {"load", "new", "mode", "dw_entry"}
                  /\ exitCode \in {-1, 0}

\* Brute-force mode: one call, on the base domain, before the loop.
BruteProbesOnce ==
    args.mode = "brute" =>
        /\ Len(probes) <= 1
        /\ \A p \in 1..Len(probes) :
              probes[p].line = 0 /\ probes[p].domain = BruteDomain
        /\ BruteProbed => Len(probes) = 1
        /\ Spawned # {} => Len(probes) = 1

\* C13: the number of probe invocations is fixed by the mode: one in
\* brute-force mode, on the base domain, before any worker and never per
\* wordlist line; in streaming mode with wildcard checking on, one for every
\* non-blank line, each on the line's two-label suffix, whether or not the
\* suffix was probed before.
C13_OneProbePerNonBlankLine ==
    /\ BruteProbesOnce
    /\ (args.mode = "stream" /\ WildcardCheck) =>
          /\ \A i \in 1..Len(input) :
                ~ProbePending(i) =>
                    ProbesOfLine(i) = (IF i \in NonBlank THEN 1 ELSE 0)
          /\ \A p \in 1..Len(probes) :
                /\ probes[p].line \in NonBlank
                /\ Len(TrimSpace(input[probes[p].line])) >= 2
                /\ probes[p].domain = BaseDomain(TrimSpace(input[probes[p].line]))

\* The lines whose name has a two-label suffix.
WithSuffix == { i \in NonBlank : Len(TrimSpace(input[i])) >= 2 }

\* C13 as amended: in streaming mode one probe for every non-blank line
\* whose name has at least two labels, none for the other lines.
C13_OneProbePerLineWithSuffix ==
    /\ BruteProbesOnce
    /\ (args.mode = "stream" /\ WildcardCheck) =>
          /\ \A i \in 1..Len(input) :
                ~ProbePending(i) =>
                    ProbesOfLine(i) = (IF i \in WithSuffix THEN 1 ELSE 0)
          /\ \A p \in 1..Len(probes) :
                /\ probes[p].line \in WithSuffix
                /\ probes[p].domain = BaseDomain(TrimSpace(input[probes[p].line]))

\* Two lines of the same suffix were read and the suffix was probed twice.
C13_Witness ==
    /\ args.mode = "stream" /\ WildcardCheck
    /\ Len(input) = 2 /\ WithSuffix = {1, 2}
    /\ Len(probes) = 2 /\ probes[1].domain = probes[2].domain
    /\ mpc = "wait"

\* The addresses some probe lookup has returned, under whatever domain.
FoundIPs == UNION { probes[p].ips : p \in 1..Len(probes) }

\* C14: the wildcard set only grows, and only by the addresses of a probe
\* lookup that succeeded: every address in it was returned by a probe
\* lookup, a step that changes it is the write of DetectWildcard and leaves
\* workers and sink alone, and a probe lookup that adds nothing to it (it
\* failed, or returned no address) changes neither the set nor the exit
\* status nor the error stream.
C14_SetGrowsFromProbesOnly ==
    [][ /\ wildcardIPs \subseteq wildcardIPs'
        /\ wildcardIPs' \subseteq FoundIPs'
        /\ wildcardIPs' # wildcardIPs =>
              /\ mpc = "dw_write"
              /\ wildcardIPs' = wildcardIPs \cup SeqToSet(dw.ips)
              /\ dw.ips # <<>>
              /\ workerVars' = workerVars /\ sinkVars' = sinkVars
        /\ mpc = "dw_resolve" =>
              /\ wildcardIPs' = wildcardIPs
              /\ exitCode' = exitCode /\ stderr' = stderr
              /\ mpc' # "dw_lock" => dw'.ips = <<>>
      ]_vars

\* Two probes have been run, the set holds both addresses and a worker has
\* been filtered by it.
C14_Witness ==
    /\ Len(probes) = 2
    /\ wildcardIPs = IPs
    /\ \E k \in Workers : wout[k] = "filtered"

\* Where a worker is once its lookup has succeeded.
Resolved == {"iw_len", "iw_lock", "iw_check", "send"}

\* C15: a worker whose lookup succeeded with no address is never filtered,
\* whatever the wildcard set holds: it leaves only by sending its line, the
\* name followed by empty brackets; a worker whose lookup returned an error
\* ends at once and sends nothing.
C15_EmptyAnswerPassesThrough ==
    [][ \A k \in Workers :
          /\ (wpc[k] = "resolve" /\ wpc'[k] = "done") =>
                /\ wout'[k] = "error"
                /\ results' = results
          /\ (wpc[k] = "resolve" /\ wpc'[k] # "resolve") =>
                (wout'[k] = "error" \/ wpc'[k] \in Resolved)
          /\ (wpc[k] \in Resolved /\ wips[k] = <<>>) =>
                /\ wpc'[k] \in Resolved \cup {"done"}
                /\ wout'[k] # "filtered"
                /\ exitCode' # 2
                /\ wpc'[k] = "done" =>
                      /\ wout'[k] = "emitted"
                      /\ results' = Append(results,
                             Join(wdomain[k], ".") \o <<" [", "]">>)
      ]_vars

\* With an address in the wildcard set, a worker whose lookup succeeded
\* with no address has emitted and its line, with empty brackets, is
\* printed, while another worker ended on an error.
C15_Witness ==
    /\ wildcardIPs # {}
    /\ \E j, k \in Workers :
          /\ wout[k] = "emitted" /\ wips[k] = <<>>
          /\ Count(stdout, Join(wdomain[k], ".") \o <<" [", "]">>) = 1
          /\ wout[j] = "error"
    /\ Len(stdout) = 1

\* C16: output is written by the one consumer goroutine only. It is started
\* once, with the pipeline, and no second one is started while it runs; a
\* step that prints or appends to the file is the consumer's, writes the one
\* string the consumer holds and leaves every worker as it was; the string
\* it holds was taken off the head of the queue, which removed it; and every
\* string sent is queued, held or printed once.
C16_SingleConsumerWrites ==
    [][ /\ (cpc # "idle" /\ cpc' # cpc) => mpc' = mpc
        /\ (cpc = "idle" /\ cpc' # "idle") =>
              (mpc \in {"er_setup", "bf_open"} /\ cpc' = "recv")
        /\ cpc' # "idle" => mpc' \notin {"er_setup", "bf_open"}
        /\ stdout' # stdout =>
              /\ cpc = "println"
              /\ stdout' = Append(stdout, cline)
              /\ workerVars' = workerVars /\ results' = results
        /\ file' # file =>
              /\ cpc = "file"
              /\ file' = Append(file, cline)
              /\ stdout # <<>> /\ stdout[Len(stdout)] = cline
              /\ workerVars' = workerVars /\ results' = results
        /\ cpc' = "println" => cpc \in {"recv", "println"}
        /\ (cpc = "recv" /\ cpc' = "println") =>
              /\ results # <<>>
              /\ cline' = Head(results) /\ results' = Tail(results)
        /\ cline' # cline => cpc = "recv"
        /\ (cpc = "println" /\ cpc' # "println") =>
              stdout' = Append(stdout, cline)
        /\ Len(stdout') + Len(results') + (IF cpc' = "println" THEN 1 ELSE 0)
              = Cardinality(Emitted')
      ]_vars

\* Two workers have emitted; the consumer has printed both lines, appended
\* the first to the output file and is about to append the second.
C16_Witness ==
    /\ Cardinality(Emitted) = 2
    /\ Len(stdout) = 2 /\ Len(file) = 1
    /\ cpc = "file" /\ cline = stdout[2] /\ file[1] = stdout[1]

\* C17: for every rate >= 1 the run ends normally: there is no state in
\* which the process is still running and no goroutine can ever take a
\* step again (the dispatch loop or a worker blocked for ever).
C17_NeverBlockedForEver == Running => ENABLED NextLive

\* C17, the run to its end: under fair scheduling the process ends with
\* status 0, the channel closed and every spawned worker done.
C17_TerminatesNormally ==
    <>(/\ exitCode = 0
       /\ resultsClosed
       /\ \A k \in Workers : wpc[k] \in {"idle", "done"})

\* At a rate above one per nanosecond the limiter is the nil channel and
\* the dispatch loop waits on it with its first name.
C17_BlockedOnNilLimiter ==
    /\ args.rate > Second
    /\ limiter = -2
    /\ mpc = "permit" /\ Spawned = {}

\* The addresses probe lookups under the given domain have returned.
FoundUnder(d) ==
    UNION { probes[p].ips : p \in { q \in 1..Len(probes) : probes[q].domain = d } }

\* C18: in streaming mode a name is filtered only on account of an address
\* found by probing the name's own two-label base domain.
C18_FilteredByOwnDomainOnly ==
    args.mode = "stream" =>
        \A k \in Workers :
            (wout[k] = "filtered" /\ Len(wdomain[k]) >= 2) =>
                SeqToSet(wips[k]) \cap FoundUnder(BaseDomain(wdomain[k])) # {}

\* b.y.org was filtered for resolving to an address that only the probes of
\* x.com returned; the probes of y.org returned no address at all.
C18_FilteredByOtherDomain ==
    /\ args.mode = "stream"
    /\ \E k \in Workers :
          /\ wdomain[k] = <<"b", "y", "org">>
          /\ wout[k] = "filtered"
          /\ wips[k] = <<"203.0.113.9">>
    /\ "203.0.113.9" \in FoundUnder(<<"x", "com">>)
    /\ FoundUnder(<<"y", "org">>) = {}
    /\ Probed(2, <<"y", "org">>)

\* main is inside DetectWildcard (or getWildcardIPs, which it calls).
InProbe ==
    mpc \in {"dw_entry", "dw_resolve", "dw_lock", "dw_write", "dw_len",
             "gw_lock", "gw_read"}

\* C19: in streaming mode with wildcard checking on, the probe run for a
\* name's own line is over when the name's worker exists: all its lookups
\* have returned and every address they returned is in the wildcard set, so
\* the worker's filter check sees them; a probe that runs while the worker
\* exists is the probe of a later line.
C19_OwnProbeCompleteBeforeSpawn ==
    (args.mode = "stream" /\ WildcardCheck) =>
        \A k \in Spawned :
            /\ \A p \in 1..Len(probes) :
                  probes[p].line = WorkerLine(k) =>
                      /\ probes[p].returned = Len(TestSubdomains)
                      /\ probes[p].ips \subseteq wildcardIPs
            /\ InProbe => Len(input) > WorkerLine(k)

\* The probe of the second line is writing the set while the worker of the
\* first line, whose own probe found an address, is at its filter check.
C19_Witness ==
    /\ args.mode = "stream" /\ WildcardCheck
    /\ Len(probes) = 2 /\ probes[1].ips # {} /\ probes[1].line = 1
    /\ mpc = "dw_write"
    /\ wpc[1] \in {"iw_len", "iw_lock"}

\* The workers whose lookup has been made.
LookedUp == { k \in Workers : wpc[k] \notin {"idle", "resolve"} }

\* C20: with wildcard checking off no probe lookup is made (every lookup
\* is a worker's), the wildcard set stays empty, main never gets past the
\* entry of DetectWildcard, no worker goes through the filter check or ends
\* filtered: a worker whose lookup succeeded is at its send or has emitted.
C20_NoWildcardNoProbeNoFilter ==
    args.noWildcard =>
        /\ wildcardIPs = {}
        /\ lookups = Cardinality(LookedUp)
        /\ \A p \in 1..Len(probes) :
              probes[p].returned = 0 /\ probes[p].ips = {}
        /\ ~(InProbe /\ mpc # "dw_entry")
        /\ \A k \in Workers :
              /\ wpc[k] \in {"idle", "resolve", "send", "done"}
              /\ wout[k] \in {"none", "error", "emitted"}
              /\ wips[k] # <<>> => (wpc[k] = "send" \/ wout[k] = "emitted")

\* Brute force with -no-wildcard: DetectWildcard was entered once and made
\* no lookup, and the names of both workers, which resolved to the same
\* address, are printed.
C20_Witness ==
    /\ args.noWildcard /\ args.mode = "brute"
    /\ Len(probes) = 1 /\ lookups = 2
    /\ \A k \in Workers : wout[k] = "emitted" /\ wips[k] = <<"203.0.113.9">>
    /\ Len(stdout) = 2

====
